---- MODULE Spec2Model ----
(***************************************************************************)
(* Model of scripts/TerrainGenerator.py (class TerrainGenerator and the    *)
(* module-level noise functions).  The script is Python 2 (it indexes      *)
(* lists with the result of "/" on integers), so "/" between integers is   *)
(* floor division, written \div here.                                      *)
(*                                                                         *)
(* Real numbers are fixed point:                                           *)
(*   heights, radii and displacements   unit 1/10000 world unit (FixScale) *)
(*   noise values and sines             unit 1/10000            (FixScale) *)
(*   rock positions                     unit 1/2 world unit                *)
(* The Maya scene (module cmds) is the host: grids, rocks, groups, shading *)
(* nodes and the soft-selection tool state.                                *)
(***************************************************************************)
EXTENDS Integers, Sequences, FiniteSets, TLC

\* ---------------------------------------------------------------- bounds
MaxDim == 2
MaxSub == 1
MaxRocks == 2
MaxOps == 3
MaxCoord == 8
MaxDen == 3

Dims == 1..MaxDim            \* dimensionSlider values used
Subs == 1..MaxSub            \* subdivisionSlider values used
RockAmounts == 0..MaxRocks   \* rocks_amount arguments of create_rocks
Methods == {0, 1}            \* deformOptions indexes
Seeds == {0, 1234, 9999}     \* values of rand(0, 1)*10000
RandUnit == {-1, 0, 1}       \* a draw of rand(-a, a): -a, 0 or a

\* ------------------------------------------------------ program constants
FixScale == 10000
maxHeight == 75000           \* 7.5
maxPoints == 100
softSelectRadius == 200000   \* 20.0
sphereStartRadius == 8000    \* .8
curves == <<"1,0,2,0,1,2", "1,0.5,2,0,1,2,1,0,2", "1,0.05,3,0,1,3,0.5,0.4,3">>
rock_falloff == "1,0,2,0,1,2"
InitDimensions == 10
InitSubdivisions == 10
InitSeed == 6000
SliderMaxSub == 150          \* max of subdivisionSlider

TerrainName == "myTerrain"
RocksName == "myRocks"
NoObject == <<"", 0>>        \* the empty string held by gridObject

\* ------------------------------------------------------------ arithmetic
Abs(a) == IF a >= 0 THEN a ELSE -a

Sq(a) == a * a

\* math.modf(v)[0] of a fixed-point value: the fractional part keeps the sign
ModfFrac(v) == IF v >= 0 THEN v % FixScale ELSE -((-v) % FixScale)

\* math.modf(v)[1] of the rational n/den with n >= 0
ModfInt(n, den) == n \div den

TwoPi == 62832
Pi == 31416
HalfPi == 15708

\* Taylor polynomial of sin on [0, pi/2], argument and result in 1/FixScale
SinPoly(x) ==
    LET x2 == (x * x) \div FixScale
        x3 == (x2 * x) \div FixScale
        t3 == x3 \div 6
        t5 == (t3 * x2) \div (20 * FixScale)
        t7 == (t5 * x2) \div (42 * FixScale)
    IN  x - t3 + t5 - t7

\* math.sin of an angle given in whole radians (a >= 0)
Sin(a) ==
    LET r == ((a % TwoPi) * FixScale) % TwoPi
    IN  IF r <= HalfPi THEN SinPoly(r)
        ELSE IF r <= Pi THEN SinPoly(Pi - r)
        ELSE IF r <= Pi + HalfPi THEN -SinPoly(r - Pi)
        ELSE -SinPoly(TwoPi - r)

\* ----------------------------------------------------------------- noise
\* noise_from_coordinates(point_x, point_y, random_seed)
noise_from_coordinates(point_x, point_y, random_seed) ==
    ModfFrac(Sin(point_x * 100 + point_y * random_seed) * random_seed)

\* variant: first_value + second_value * alpha
linear_interpolation_sum(first_value, second_value, alpha) ==
    (first_value * FixScale + second_value * alpha) \div FixScale

\* linear_interpolation(first_value, second_value, alpha), alpha in 1/FixScale
linear_interpolation(first_value, second_value, alpha) ==
    (first_value * (FixScale - alpha) + second_value * alpha) \div FixScale

\* variant: the weight is one half everywhere
SmoothStepHalf(a, den) == FixScale \div 2

\* smooth step (t**2)*(3-(2*t)) of the local coordinate t = a/den
SmoothStep(a, den) == (a * a * (3 * den - 2 * a) * FixScale) \div (den * den * den)

\* smooth_noise(point_x, point_y, random_seed) at the point (nx/den, ny/den)
smooth_noise(nx, ny, den, random_seed) ==
    LET smooth_local_x == SmoothStep(nx % den, den)
        smooth_local_y == SmoothStep(ny % den, den)
        grid_id_x == ModfInt(nx, den)
        grid_id_y == ModfInt(ny, den)
        bottom_left == noise_from_coordinates(grid_id_x, grid_id_y, random_seed)
        bottom_right == noise_from_coordinates(grid_id_x + 1, grid_id_y, random_seed)
        bottom == linear_interpolation(bottom_left, bottom_right, smooth_local_x)
        top_left == noise_from_coordinates(grid_id_x, grid_id_y + 1, random_seed)
        top_right == noise_from_coordinates(grid_id_x + 1, grid_id_y + 1, random_seed)
        top == linear_interpolation(top_left, top_right, smooth_local_x)
    IN  linear_interpolation(bottom, top, smooth_local_y)

\* variant: only the first octave is handed the seed, the others fall back
\* on smooth_noise's default random_seed
OctaveValueDefaultSeed(x, y, s, seed) ==
    LET v1 == smooth_noise(x * 4, y * 4, s, seed)
        v2 == smooth_noise(x * 8, y * 8, s, InitSeed)
        v3 == smooth_noise(x * 16, y * 16, s, InitSeed)
        v4 == smooth_noise(x * 32, y * 32, s, InitSeed)
    IN  (8 * v1 + 4 * v2 + 2 * v3 + v4) \div 15

\* the four octaves summed in value_noise for lattice point (x, y) of a grid
\* with s subdivisions: value in 1/FixScale
OctaveValue(x, y, s, seed) ==
    LET v1 == smooth_noise(x * 4, y * 4, s, seed)
        v2 == smooth_noise(x * 8, y * 8, s, seed)
        v3 == smooth_noise(x * 16, y * 16, s, seed)
        v4 == smooth_noise(x * 32, y * 32, s, seed)
    IN  (8 * v1 + 4 * v2 + 2 * v3 + v4) \div 15

\* ------------------------------------------------------------ host scene
VARIABLES
    gridObject,        \* TerrainGenerator.gridObject: name of the grid, or NoObject
    gridDimensions,    \* TerrainGenerator.gridDimensions
    gridSubdivisions,  \* TerrainGenerator.gridSubdivisions
    noise_seed,        \* TerrainGenerator.noise_seed
    softSelect,        \* host soft-selection tool: [sse, ssd, ssc]
    scene,             \* host grids: name -> [dim, sub, verts, softEdge]
    rocks,             \* host rock transforms, in creation order
    groups,            \* host group nodes (names)
    shadingNodes,      \* host shading nodes created so far: [blinn, switch, color]
    pc,                \* which handler is running: "idle", "soft_random", "create_rocks"
    frame,             \* local variables of the running handler
    call,              \* the last call made to the generator and its outcome
    ops                \* number of calls and external deletions so far

vars == <<gridObject, gridDimensions, gridSubdivisions, noise_seed, softSelect,
          scene, rocks, groups, shadingNodes, pc, frame, call, ops>>

\* f extended (or overwritten) at key k
Extend(f, k, v) == [n \in (DOMAIN f) \cup {k} |-> IF n = k THEN v ELSE f[n]]

\* f without key k
Remove(f, k) == [n \in (DOMAIN f) \ {k} |-> f[n]]

\* the name the host gives to a new node asked to be called base: base itself
\* when free, otherwise base followed by the first free number
UniqueName(base, used) ==
    LET k == CHOOSE i \in 0..Cardinality(used) :
                 /\ <<base, i>> \notin used
                 /\ \A j \in 0..(i - 1) : <<base, j>> \in used
    IN  <<base, k>>

\* cmds.polyPlane(width=d, height=d, sx=s, sy=s): (s+1)*(s+1) vertices in
\* row-major order, flat, x and z in units of 1/(2*s)
polyPlane(d, s) ==
    [dim |-> d, sub |-> s, softEdge |-> FALSE,
     verts |-> [k \in 1..((s + 1) * (s + 1)) |->
                  [px |-> (2 * ((k - 1) % (s + 1)) - s) * d,
                   pz |-> (2 * ((k - 1) \div (s + 1)) - s) * d,
                   h |-> 0]]]

\* integer square root
ISqrt(n) == CHOOSE r \in 0..n : r * r <= n /\ (r + 1) * (r + 1) > n

\* value of a falloff curve at q/100 of the radius, in 1/FixScale; every
\* curve of the palette is 1 at the centre and 0 at the radius
CurveValue(ssc, q) ==
    IF q >= 100 THEN 0
    ELSE IF ssc = "1,0.5,2,0,1,2,1,0,2"
         THEN (IF q <= 50 THEN FixScale ELSE ((100 - q) * FixScale) \div 50)
    ELSE IF ssc = "1,0.05,3,0,1,3,0.5,0.4,3"
         THEN (IF q <= 5 THEN FixScale
               ELSE IF q <= 40 THEN FixScale - ((q - 5) * (FixScale \div 2)) \div 35
               ELSE ((100 - q) * (FixScale \div 2)) \div 60)
    ELSE ((100 - q) * FixScale) \div 100

\* weight with which a move of vertex c drags vertex k of grid g
Weight(g, c, k, ss) ==
    IF k = c THEN FixScale
    ELSE IF ~ss.sse THEN 0
    ELSE LET n == g.sub + 1
             d2 == Sq(((k - 1) % n) - ((c - 1) % n)) + Sq(((k - 1) \div n) - ((c - 1) \div n))
             \* 100 * (distance/radius)^2: spacing is dim/sub, radius ss.ssd
             r2 == (d2 * Sq(100 * g.dim) * 100) \div Sq((ss.ssd \div 100) * g.sub)
             \* distance/radius in percent, in steps of 10, capped at 100
             q == ISqrt(IF r2 > 100 THEN 100 ELSE r2) * 10
         IN  CurveValue(ss.ssc, q)

\* cmds.move(vec, vertex c, r=relative) on grid g under soft selection ss;
\* c is a 1-based position in g.verts
MoveVertex(g, c, vec, relative, ss) ==
    IF c \notin DOMAIN g.verts THEN g
    ELSE [g EXCEPT !.verts =
            [k \in DOMAIN g.verts |->
               LET w == Weight(g, c, k, ss)
                   v == g.verts[k]
               IN  IF w = 0 THEN v
                   ELSE IF relative
                        THEN [px |-> v.px + (vec[1] * w) \div FixScale,
                              h  |-> v.h + (vec[2] * w) \div FixScale,
                              pz |-> v.pz + (vec[3] * w) \div FixScale]
                        ELSE [px |-> vec[1], h |-> vec[2], pz |-> vec[3]]]]

IsFlat(g) == \A k \in DOMAIN g.verts : g.verts[k].h = 0

\* ------------------------------------------------------------- generator
NoFrame ==
    [v |-> 0, vertices_to_edit |-> 0, section_amount |-> 0, section_size |-> 0,
     grid_indexes |-> <<>>, i |-> 0, rocks_amount |-> 0, terrain_verification |-> 0,
     height_limit |-> 0, ssd |-> 0, sections |-> 0, section_edits |-> <<>>,
     section |-> 0, vertex |-> 0, raw_y |-> 0, random_y |-> 0,
     radius |-> 0, soft_select_radius |-> 0, edits |-> <<>>,
     deform_rock_sse |-> FALSE, rock_edits |-> <<>>]

NoCall ==
    [op |-> "init", valid |-> FALSE, result |-> "None", logged |-> FALSE,
     priorFlat |-> TRUE, moved |-> <<>>, first |-> 0, amount |-> 0,
     height_limit |-> 0, ssd |-> 0, vertices_to_edit |-> 0, displacements |-> 0,
     method |-> -1]

Init ==
    /\ gridObject = NoObject
    /\ gridDimensions = InitDimensions
    /\ gridSubdivisions = InitSubdivisions
    /\ noise_seed = InitSeed
    /\ softSelect \in {[sse |-> b, ssd |-> 5000, ssc |-> "0,1,2,1,0,2"] : b \in BOOLEAN}
    /\ scene = [n \in {} |-> 0]
    /\ rocks = <<>>
    /\ groups = {}
    /\ shadingNodes = [blinn |-> 0, switch |-> 0, color |-> 0]
    /\ pc = "idle"
    /\ frame = NoFrame
    /\ call = NoCall
    /\ ops = 0

\* check_terrain(): gridObject is not empty and cmds.select finds it
check_terrain == gridObject # NoObject /\ gridObject \in DOMAIN scene

\* variant: the failed check is raised to the caller
ReturnRaised == "NoTerrainError"

\* what soft_random and value_noise hand back when check_terrain fails
ReturnNoTerrain == "None"

FailedDeform(name) ==
    [NoCall EXCEPT !.op = name, !.valid = FALSE, !.result = ReturnNoTerrain,
                   !.logged = TRUE]

\* variant: self.gridObject = grid_name
CreatedHandleByName(grid_name, selection) == <<grid_name, 0>>

\* self.gridObject = cmds.ls(selection=True)[0]: the node polyPlane created
CreatedHandle(grid_name, selection) == selection

create_terrain(grid_name, dimensions, subdivisions) ==
    /\ pc = "idle" /\ ops < MaxOps
    /\ LET created == UniqueName(grid_name, DOMAIN scene)
       IN  /\ scene' = Extend(scene, created, polyPlane(dimensions, subdivisions))
           /\ gridObject' = CreatedHandle(grid_name, created)
    /\ gridDimensions' = dimensions
    /\ gridSubdivisions' = subdivisions
    /\ call' = [NoCall EXCEPT !.op = "create_terrain", !.valid = TRUE]
    /\ ops' = ops + 1
    /\ UNCHANGED <<noise_seed, softSelect, rocks, groups, shadingNodes, pc, frame>>

\* the user deletes a grid in the host ("or got deleted")
DeleteTerrain(n) ==
    /\ pc = "idle" /\ ops < MaxOps
    /\ n \in DOMAIN scene
    /\ scene' = Remove(scene, n)
    /\ call' = [NoCall EXCEPT !.op = "delete"]
    /\ ops' = ops + 1
    /\ UNCHANGED <<gridObject, gridDimensions, gridSubdivisions, noise_seed,
                   softSelect, rocks, groups, shadingNodes, pc, frame>>

\* ------------------------------------------------- Method A: soft_random
\* variant: the limit of the default dimension, whatever the grid
SoftHeightLimitDefault(d) == (maxHeight * InitDimensions) \div 200

\* height_limit = self.maxHeight*height_multiplier/2.0
SoftHeightLimit(d) == (maxHeight * d) \div 200

\* ssd = self.softSelectRadius*radius_multiplier
SoftRadius(d) == (softSelectRadius * d) \div 100

\* the subdivisions s of the slider range for which the double
\* 100 * (s/100.0) + 2 lies just below s + 2 (s/100.0 is rounded down and
\* the product is not rounded back up)
RoundsBelow == {29, 57, 58, 113, 114, 115, 116}

\* vertices_to_edit = int(self.maxPoints * points_multiplier + 2), with
\* points_multiplier = self.gridSubdivisions/100.0 a double
VerticesToEdit(s) ==
    IF s \in RoundsBelow THEN (maxPoints * s) \div 100 + 1
    ELSE (maxPoints * s) \div 100 + 2

\* section_amount = 8 if vertices_to_edit >= 8 else vertices_to_edit
SectionAmount(vte) == IF vte >= 8 THEN 8 ELSE vte

\* section_size = len(vertices)/section_amount
SectionSize(n, amount) == n \div amount

\* vertex_sections = [vertices[i:i + section_size] for i in range(0, n, section_size)]
\* as a sequence of sets of 1-based vertex positions
VertexSections(n, size) ==
    [c \in 1..((n + size - 1) \div size) |->
        {k \in 1..n : (c - 1) * size < k /\ k <= c * size}]

\* len(vertex_sections): the slices range(0, n, section_size) yields
SectionCount(n, size) == (n + size - 1) \div size

\* first and last 1-based vertex position of vertex_sections[c - 1]
SectionFirst(c, size) == (c - 1) * size + 1

SectionLast(c, size, n) == IF c * size <= n THEN c * size ELSE n

\* the orders shuffle can leave range(0, amount) in
Shuffles(amount) ==
    {p \in [1..amount -> 0..(amount - 1)] : \A a, b \in 1..amount : p[a] = p[b] => a = b}

\* variant: the draw is applied as it is
PushFromZeroNone(random_y, limit) == random_y

\* random_y + height_limit if random_y >= 0 else random_y - height_limit
PushFromZero(random_y, limit) ==
    IF random_y >= 0 THEN random_y + limit ELSE random_y - limit

\* variant: cmds.move(random_y, 0, 0, r=True)
SoftRandomVectorX(random_y) == <<random_y, 0, 0>>

\* cmds.move(0, random_y, 0, r=True)
SoftRandomVector(random_y) == <<0, random_y, 0>>

\* the locals soft_random sets up before its loop, for a grid of n vertices
SoftRandomLocals(n, d, s, shuffled) ==
    LET vte == VerticesToEdit(s)
        amount == SectionAmount(vte)
        size == SectionSize(n, amount)
    IN  [NoFrame EXCEPT !.height_limit = SoftHeightLimit(d),
                        !.ssd = SoftRadius(d),
                        !.vertices_to_edit = vte,
                        !.section_amount = amount,
                        !.section_size = size,
                        !.sections = SectionCount(n, size),
                        !.section_edits = [c \in 1..SectionCount(n, size) |-> 0],
                        !.grid_indexes = shuffled]

\* vertex_sections[grid_indexes[v % section_amount]] as a 1-based position
\* in vertex_sections
CurrentSection(f) == f.grid_indexes[(f.v % f.section_amount) + 1] + 1

\* the locals after one pass of the loop that drew raw_y for vertex
SoftRandomPass(f, vertex, raw_y) ==
    [f EXCEPT !.v = f.v + 1,
              !.section = CurrentSection(f),
              !.section_edits[CurrentSection(f)] = @ + 1,
              !.vertex = vertex,
              !.raw_y = raw_y,
              !.random_y = PushFromZero(raw_y, f.height_limit)]

SoftRandomStart ==
    /\ pc = "idle" /\ ops < MaxOps
    /\ ops' = ops + 1
    /\ IF ~check_terrain
       THEN /\ call' = FailedDeform("soft_random")
            /\ UNCHANGED <<gridObject, gridDimensions, gridSubdivisions, noise_seed,
                           softSelect, scene, rocks, groups, shadingNodes, pc, frame>>
       ELSE LET n == Len(scene[gridObject].verts)
                amount == SectionAmount(VerticesToEdit(gridSubdivisions))
            IN  /\ \E shuffled \in Shuffles(amount) :
                     frame' = SoftRandomLocals(n, gridDimensions, gridSubdivisions, shuffled)
                /\ pc' = "soft_random"
                /\ call' = [NoCall EXCEPT !.op = "soft_random", !.valid = TRUE,
                                          !.result = "running",
                                          !.priorFlat = IsFlat(scene[gridObject]),
                                          !.height_limit = SoftHeightLimit(gridDimensions),
                                          !.ssd = SoftRadius(gridDimensions),
                                          !.vertices_to_edit = VerticesToEdit(gridSubdivisions)]
                /\ UNCHANGED <<gridObject, gridDimensions, gridSubdivisions, noise_seed,
                               softSelect, scene, rocks, groups, shadingNodes>>

\* one pass of "for v in range(vertices_to_edit)"
SoftRandomIter ==
    /\ pc = "soft_random"
    /\ frame.v < frame.vertices_to_edit
    /\ LET g == scene[gridObject]
           sections == VertexSections(Len(g.verts), frame.section_size)
           section == sections[CurrentSection(frame)]
       IN  \E c \in DOMAIN curves, vertex \in section, u \in RandUnit :
              LET ss == [sse |-> TRUE, ssd |-> frame.ssd, ssc |-> curves[c]]
                  after == SoftRandomPass(frame, vertex, u * frame.height_limit)
              IN  /\ softSelect' = ss
                  /\ scene' = [scene EXCEPT ![gridObject] =
                                 MoveVertex(g, vertex, SoftRandomVector(after.random_y), TRUE, ss)]
                  /\ frame' = after
    /\ call' = [call EXCEPT !.displacements = @ + 1]
    /\ UNCHANGED <<gridObject, gridDimensions, gridSubdivisions, noise_seed,
                   rocks, groups, shadingNodes, pc, ops>>

\* after the loop: cmds.softSelect(sse=False); cmds.polySoftEdge(...)
SoftRandomFinish ==
    /\ pc = "soft_random"
    /\ frame.v = frame.vertices_to_edit
    /\ softSelect' = [softSelect EXCEPT !.sse = FALSE]
    /\ scene' = [scene EXCEPT ![gridObject].softEdge = TRUE]
    /\ pc' = "idle"
    /\ frame' = NoFrame
    /\ call' = [call EXCEPT !.result = "None"]
    /\ UNCHANGED <<gridObject, gridDimensions, gridSubdivisions, noise_seed,
                   rocks, groups, shadingNodes, ops>>

soft_random == SoftRandomStart

\* ------------------------------------------------- Method B: value_noise
\* height_limit = self.maxHeight * height_multiplier * 3.0
NoiseHeightLimit(d) == (maxHeight * d * 3) \div 100

\* variant: index = x * self.gridSubdivisions + y
ValueNoiseIndexShort(x, y, s) == x * s + y

\* index = x * (self.gridSubdivisions+1) + y
ValueNoiseIndex(x, y, s) == x * (s + 1) + y

\* cmds.move(0, value * height_limit, 0, vertices[index], r=True)
ValueNoiseVector(dy) == <<0, dy, 0>>

\* variant: r=False
ValueNoiseAbsolute == FALSE

\* the r flag of that move
ValueNoiseRelative == TRUE

\* the displacement value * height_limit of lattice point (x, y)
NoiseDisplacement(x, y, s, d, seed) ==
    (OctaveValue(x, y, s, seed) * NoiseHeightLimit(d)) \div FixScale

\* the moves of the nested loops, in loop order (x outer, y inner)
ValueNoiseMoves(s, d, seed) ==
    [k \in 1..((s + 1) * (s + 1)) |->
        LET x == (k - 1) \div (s + 1)
            y == (k - 1) % (s + 1)
        IN  [index |-> ValueNoiseIndex(x, y, s),
             dy |-> NoiseDisplacement(x, y, s, d, seed)]]

RECURSIVE ApplyMoves(_, _, _, _)
ApplyMoves(g, moves, k, ss) ==
    IF k > Len(moves) THEN g
    ELSE ApplyMoves(MoveVertex(g, moves[k].index + 1, ValueNoiseVector(moves[k].dy),
                               ValueNoiseRelative, ss),
                    moves, k + 1, ss)

\* variant: value_noise leaves the soft selection as it finds it
ValueNoiseSoftSelectKept(valid, ss) == ss

\* variant: the seed is redrawn before the terrain check
ValueNoiseSeedFirst(valid, old, drawn) == drawn

\* the seed after value_noise: redrawn only past the terrain check
ValueNoiseSeed(valid, old, drawn) == IF valid THEN drawn ELSE old

\* the soft selection after value_noise: disabled only past the terrain check
ValueNoiseSoftSelect(valid, ss) == IF valid THEN [ss EXCEPT !.sse = FALSE] ELSE ss

value_noise ==
    /\ pc = "idle" /\ ops < MaxOps
    /\ ops' = ops + 1
    /\ \E drawn \in Seeds :
          LET valid == check_terrain
              seed == ValueNoiseSeed(valid, noise_seed, drawn)
              ss == ValueNoiseSoftSelect(valid, softSelect)
          IN  /\ noise_seed' = seed
              /\ softSelect' = ss
              /\ IF ~valid
                 THEN /\ call' = FailedDeform("value_noise")
                      /\ UNCHANGED scene
                 ELSE LET moves == ValueNoiseMoves(gridSubdivisions, gridDimensions, seed)
                      IN  /\ scene' = [scene EXCEPT ![gridObject] =
                                         ApplyMoves(scene[gridObject], moves, 1, ss)]
                          /\ call' = [NoCall EXCEPT
                                        !.op = "value_noise", !.valid = TRUE,
                                        !.height_limit = NoiseHeightLimit(gridDimensions),
                                        !.priorFlat = IsFlat(scene[gridObject]),
                                        !.moved = [k \in DOMAIN moves |-> moves[k].index]]
    /\ UNCHANGED <<gridObject, gridDimensions, gridSubdivisions,
                   rocks, groups, shadingNodes, pc, frame>>

\* deform_terrain(deformation_method)
deform_terrain(deformation_method) ==
    \/ deformation_method = 0 /\ soft_random
    \/ deformation_method = 1 /\ value_noise

\* ---------------------------------------------------------- modify_terrain
\* the name the host gives to the plane modify_terrain asks for under the
\* full name held by gridObject
RecreatedName(name, used) ==
    IF name \notin used THEN name ELSE UniqueName(name[1], used)

\* variant: the old grid is kept and deformed again
RecreatedGridKept(g, d, s) == g

\* cmds.delete(self.gridObject); cmds.polyPlane(...): the grid that takes the
\* place of g
RecreatedGrid(g, d, s) == polyPlane(d, s)

\* modify_terrain(deformation_method); cmds.delete raises ValueError when
\* gridObject names no object, and the error leaves the method
modify_terrain(deformation_method) ==
    /\ pc = "idle" /\ ops < MaxOps
    /\ ops' = ops + 1
    /\ IF gridObject \notin DOMAIN scene
       THEN /\ call' = [NoCall EXCEPT !.op = "modify_terrain", !.valid = FALSE,
                                      !.result = "ValueError",
                                      !.method = deformation_method]
            /\ UNCHANGED <<gridObject, gridDimensions, gridSubdivisions, noise_seed,
                           softSelect, scene, rocks, groups, shadingNodes, pc, frame>>
       ELSE LET old == scene[gridObject]
                deleted == Remove(scene, gridObject)
                created == RecreatedName(gridObject, DOMAIN deleted)
                plane == RecreatedGrid(old, gridDimensions, gridSubdivisions)
                recreated == Extend(deleted, created, plane)
                done == [NoCall EXCEPT !.op = "modify_terrain", !.valid = TRUE,
                                       !.priorFlat = IsFlat(old),
                                       !.method = deformation_method]
            IN  \/ /\ deformation_method = 0
                   /\ \E shuffled \in Shuffles(SectionAmount(VerticesToEdit(gridSubdivisions))) :
                         frame' = SoftRandomLocals(Len(plane.verts), gridDimensions,
                                                   gridSubdivisions, shuffled)
                   /\ pc' = "soft_random"
                   /\ scene' = recreated
                   /\ call' = [done EXCEPT
                                 !.result = "running",
                                 !.height_limit = SoftHeightLimit(gridDimensions),
                                 !.ssd = SoftRadius(gridDimensions),
                                 !.vertices_to_edit = VerticesToEdit(gridSubdivisions)]
                   /\ UNCHANGED <<gridObject, gridDimensions, gridSubdivisions,
                                  noise_seed, softSelect, rocks, groups, shadingNodes>>
                \/ /\ deformation_method = 1
                   /\ \E drawn \in Seeds :
                         LET ss == ValueNoiseSoftSelect(TRUE, softSelect)
                             seed == ValueNoiseSeed(TRUE, noise_seed, drawn)
                             moves == ValueNoiseMoves(gridSubdivisions, gridDimensions, seed)
                         IN  /\ noise_seed' = seed
                             /\ softSelect' = ss
                             /\ scene' = [recreated EXCEPT ![gridObject] =
                                            ApplyMoves(plane, moves, 1, ss)]
                             /\ call' = [done EXCEPT
                                           !.height_limit = NoiseHeightLimit(gridDimensions),
                                           !.moved = [k \in DOMAIN moves |-> moves[k].index]]
                   /\ UNCHANGED <<gridObject, gridDimensions, gridSubdivisions,
                                  rocks, groups, shadingNodes, pc, frame>>

\* ------------------------------------------------------------ rocks
\* sphere_radius = self.sphereStartRadius*size_multiplier
SphereRadius(d) == (sphereStartRadius * d) \div 100

\* vertices of cmds.polySphere(subdivisionsAxis=20, subdivisionsHeight=20):
\* 19 rings of 20 and the two poles
SphereVertices == 20 * 19 + 2

\* variant: the drawn radius is used as it is
RockSoftRadiusRaw(u, radius) == (u * radius) \div 10

\* deform_rock: soft_select_radius = rand(-.1, .1) * radius, pushed from zero
RockSoftRadius(u, radius) ==
    LET drawn == (u * radius) \div 10
    IN  IF drawn >= 0 THEN drawn + radius ELSE drawn - radius

\* the host commands of deform_rock in program order; amounts are in
\* 1/100000 of the length unit, vertex is a 0-based index into vertices
DeformRockCommands(u, radius) ==
    LET soft_select_radius == RockSoftRadius(u, radius)
    IN  << [cmd |-> "softSelect", sse |-> TRUE, ssd |-> 3 * Abs(soft_select_radius)],
           [cmd |-> "scale", target |-> "vertices[-2]", vertex |-> SphereVertices - 2,
            amount |-> 5 * radius],
           [cmd |-> "softSelect", sse |-> TRUE, ssd |-> (3 * Abs(soft_select_radius)) \div 2],
           [cmd |-> "move", target |-> "vertices[len(vertices)/2]",
            vertex |-> SphereVertices \div 2, amount |-> 80000 * radius],
           [cmd |-> "move", target |-> "vertices[-1]", vertex |-> SphereVertices - 1,
            amount |-> 40000 * radius],
           [cmd |-> "softSelect", sse |-> FALSE, ssd |-> 0],
           [cmd |-> "move", target |-> "scalePivot", vertex |-> -1,
            amount |-> -95000 * radius],
           [cmd |-> "move", target |-> "rotatePivot", vertex |-> -1,
            amount |-> -95000 * radius] >>

\* the host running commands k.. under soft selection ss: the scales and
\* moves made so far, each with the soft selection in force, and the mesh's
\* vertex count (no command here adds or removes a vertex)
RECURSIVE RunCommands(_, _, _, _, _)
RunCommands(commands, k, ss, edits, count) ==
    IF k > Len(commands) THEN [softSelect |-> ss, edits |-> edits, vertices |-> count]
    ELSE LET c == commands[k]
         IN  IF c.cmd = "softSelect"
             THEN RunCommands(commands, k + 1,
                              IF c.sse THEN [sse |-> TRUE, ssd |-> c.ssd, ssc |-> rock_falloff]
                              ELSE [ss EXCEPT !.sse = FALSE],
                              edits, count)
             ELSE RunCommands(commands, k + 1, ss,
                              Append(edits, [cmd |-> c.cmd, target |-> c.target,
                                             vertex |-> c.vertex, amount |-> c.amount,
                                             sse |-> ss.sse, ssd |-> ss.ssd]),
                              count)

\* deform_rock(sphere, radius) with u the draw of rand(-.1, .1)
deform_rock(u, radius, ss) ==
    RunCommands(DeformRockCommands(u, radius), 1, ss, <<>>, SphereVertices)

\* the soft selection deform_rock leaves behind: the last enable uses
\* 1.5*abs(soft_select_radius), then cmds.softSelect(sse=False)
DeformRockSoftSelect(u, radius) ==
    [sse |-> FALSE, ssd |-> (3 * Abs(RockSoftRadius(u, radius))) \div 2, ssc |-> rock_falloff]

\* the bounds handed to rand for a rock position: -d / 2 and d / 2
PositionLow(d) == (-d) \div 2

PositionHigh(d) == d \div 2

\* draws of rand(PositionLow, PositionHigh), in half units
PositionDraws(d) == {2 * PositionLow(d), 2 * PositionHigh(d)}

\* rocks_group = rocks_name + "_grp"
RocksGroup(rocks_name) == <<rocks_name, "_grp">>

\* height of the grid's surface under (x2, z2): the closest vertex
SurfaceHeight(g, x2, z2) ==
    LET dist(k) == Sq(g.verts[k].px - x2 * g.sub) + Sq(g.verts[k].pz - z2 * g.sub)
        near == CHOOSE k \in DOMAIN g.verts : \A j \in DOMAIN g.verts : dist(k) <= dist(j)
    IN  g.verts[near].h

\* variant: the failed attempt is not remembered
AfterFailedProjectionKept(terrain_verification) == terrain_verification

\* terrain_verification after a projection attempt that raised ValueError
AfterFailedProjection(terrain_verification) == terrain_verification - 1

\* the host commands of one pass of create_rocks on the whole rock, after
\* deform_rock has returned: soft selection off, scale, position and, when
\* the terrain is tried and found, the two constraints; the amounts are
\* not held here
WholeRockCommands(attempt, found) ==
    << [cmd |-> "softSelect", sse |-> FALSE, ssd |-> 0],
       [cmd |-> "scale", target |-> "new_sphere", vertex |-> -1, amount |-> 0],
       [cmd |-> "move", target |-> "new_sphere", vertex |-> -1, amount |-> 0] >>
    \o (IF attempt /\ found
        THEN << [cmd |-> "geometryConstraint", target |-> "new_sphere",
                 vertex |-> -1, amount |-> 0],
                [cmd |-> "normalConstraint", target |-> "new_sphere",
                 vertex |-> -1, amount |-> 0] >>
        ELSE << >>)

\* variant: every grouping attempt finds the group missing
GroupMissingAlways(rocks_group, existing) == TRUE

\* cmds.select(new_sphere, rocks_group) raises ValueError: no such group
GroupMissing(rocks_group, existing) == rocks_group \notin existing

\* variant: the rock is left unparented
RockParentWorld(rocks_group) == <<"world", "">>

\* cmds.select(new_sphere, rocks_group); cmds.parent(): the rock's parent
RockParent(rocks_group) == rocks_group

CreateRocksStart(rocks_name, rocks_amount) ==
    /\ pc = "idle" /\ ops < MaxOps
    /\ ops' = ops + 1
    /\ softSelect' = [softSelect EXCEPT !.sse = FALSE]
    /\ shadingNodes' = [shadingNodes EXCEPT !.blinn = @ + 1, !.switch = @ + 1]
    /\ frame' = [NoFrame EXCEPT !.rocks_amount = rocks_amount, !.terrain_verification = 1]
    /\ pc' = "create_rocks"
    /\ call' = [NoCall EXCEPT !.op = "create_rocks", !.valid = check_terrain,
                              !.result = "running", !.first = Len(rocks),
                              !.amount = rocks_amount]
    /\ UNCHANGED <<gridObject, gridDimensions, gridSubdivisions, noise_seed,
                   scene, rocks, groups>>

\* one pass of "for i in range(rocks_amount)"
CreateRocksIter(rocks_name) ==
    /\ pc = "create_rocks"
    /\ frame.i < frame.rocks_amount
    /\ \E u \in RandUnit, x2 \in PositionDraws(gridDimensions),
          z2 \in PositionDraws(gridDimensions) :
          LET sphere_radius == SphereRadius(gridDimensions)
              rocks_group == RocksGroup(rocks_name)
              new_sphere == UniqueName(rocks_name, {rocks[k].name : k \in DOMAIN rocks})
              attempt == frame.terrain_verification > 0
              found == gridObject \in DOMAIN scene
              y == IF attempt /\ found
                   THEN SurfaceHeight(scene[gridObject], x2, z2) ELSE 0
              deformed == deform_rock(u, sphere_radius, softSelect)
              placed == RunCommands(WholeRockCommands(attempt, found), 1,
                                    deformed.softSelect, <<>>, deformed.vertices)
              missing == GroupMissing(rocks_group, groups)
          IN  /\ softSelect' = placed.softSelect
              /\ rocks' = Append(rocks,
                                 [name |-> new_sphere, radius |-> sphere_radius,
                                  vertices |-> placed.vertices,
                                  x2 |-> x2, z2 |-> z2, y |-> y,
                                  attempted |-> attempt,
                                  projected |-> attempt /\ found,
                                  madeGroup |-> missing,
                                  parent |-> RockParent(rocks_group)])
              /\ groups' = IF missing THEN groups \cup {rocks_group} ELSE groups
              /\ frame' = [frame EXCEPT
                             !.i = frame.i + 1,
                             !.radius = sphere_radius,
                             !.soft_select_radius = RockSoftRadius(u, sphere_radius),
                             !.edits = deformed.edits,
                             !.deform_rock_sse = deformed.softSelect.sse,
                             !.rock_edits = placed.edits,
                             !.terrain_verification =
                                 IF attempt /\ ~found
                                 THEN AfterFailedProjection(frame.terrain_verification)
                                 ELSE frame.terrain_verification]
    /\ shadingNodes' = [shadingNodes EXCEPT !.color = @ + 1]
    /\ UNCHANGED <<gridObject, gridDimensions, gridSubdivisions, noise_seed,
                   scene, pc, call, ops>>

CreateRocksFinish ==
    /\ pc = "create_rocks"
    /\ frame.i = frame.rocks_amount
    /\ pc' = "idle"
    /\ frame' = NoFrame
    /\ call' = [call EXCEPT !.result = "None"]
    /\ UNCHANGED <<gridObject, gridDimensions, gridSubdivisions, noise_seed,
                   softSelect, scene, rocks, groups, shadingNodes, ops>>

create_rocks(rocks_name, rocks_amount) == CreateRocksStart(rocks_name, rocks_amount)

\* ------------------------------------------------------- specification
\* terrain life cycle and the two deformation methods
Next ==
    \/ \E d \in Dims, s \in Subs : create_terrain(TerrainName, d, s)
    \/ \E m \in Methods : deform_terrain(m)
    \/ SoftRandomIter
    \/ SoftRandomFinish
    \/ \E n \in DOMAIN scene : DeleteTerrain(n)

Spec == Init /\ [][Next]_vars

\* terrain life cycle, Method B and the rock scatter
NextRocks ==
    \/ \E d \in Dims, s \in Subs : create_terrain(TerrainName, d, s)
    \/ value_noise
    \/ \E a \in RockAmounts : create_rocks(RocksName, a)
    \/ CreateRocksIter(RocksName)
    \/ CreateRocksFinish
    \/ \E n \in DOMAIN scene : DeleteTerrain(n)

SpecRocks == Init /\ [][NextRocks]_vars

\* every operation the window offers: terrain, both methods, rocks
NextWindow ==
    \/ \E d \in Dims, s \in Subs : create_terrain(TerrainName, d, s)
    \/ \E m \in Methods : deform_terrain(m)
    \/ SoftRandomIter
    \/ SoftRandomFinish
    \/ \E a \in RockAmounts : create_rocks(RocksName, a)
    \/ CreateRocksIter(RocksName)
    \/ CreateRocksFinish
    \/ \E n \in DOMAIN scene : DeleteTerrain(n)

SpecWindow == Init /\ [][NextWindow]_vars

\* terrain life cycle with modify_terrain as the only way to deform
NextModify ==
    \/ \E d \in Dims, s \in Subs : create_terrain(TerrainName, d, s)
    \/ \E m \in Methods : modify_terrain(m)
    \/ SoftRandomIter
    \/ SoftRandomFinish
    \/ \E n \in DOMAIN scene : DeleteTerrain(n)

SpecModify == Init /\ [][NextModify]_vars

\* the vertex bookkeeping of soft_random over the whole range of the
\* subdivision slider; the grid's vertex list is held as its length
\* (gridSubdivisions + 1)^2 only
SliderSubs == 1..SliderMaxSub

\* orders of range(0, amount) drawn for the shuffle: kept, reversed, rotated
SomeShuffles(amount) ==
    {[a \in 1..amount |-> a - 1],
     [a \in 1..amount |-> amount - a],
     [a \in 1..amount |-> a % amount]}

InitSections ==
    /\ gridObject = <<TerrainName, 0>>
    /\ gridDimensions = InitDimensions
    /\ gridSubdivisions \in SliderSubs
    /\ noise_seed = InitSeed
    /\ softSelect = [sse |-> FALSE, ssd |-> 5000, ssc |-> "0,1,2,1,0,2"]
    /\ scene = [n \in {} |-> 0]
    /\ rocks = <<>>
    /\ groups = {}
    /\ shadingNodes = [blinn |-> 0, switch |-> 0, color |-> 0]
    /\ pc = "idle"
    /\ frame = NoFrame
    /\ call = [NoCall EXCEPT !.op = "create_terrain", !.valid = TRUE]
    /\ ops = 0

\* soft_random up to its loop
SectionsStart ==
    /\ pc = "idle" /\ ops = 0
    /\ ops' = ops + 1
    /\ \E shuffled \in SomeShuffles(SectionAmount(VerticesToEdit(gridSubdivisions))) :
          frame' = SoftRandomLocals(Sq(gridSubdivisions + 1), gridDimensions,
                                    gridSubdivisions, shuffled)
    /\ pc' = "soft_random"
    /\ call' = [NoCall EXCEPT !.op = "soft_random", !.valid = TRUE, !.result = "running",
                              !.height_limit = SoftHeightLimit(gridDimensions),
                              !.ssd = SoftRadius(gridDimensions),
                              !.vertices_to_edit = VerticesToEdit(gridSubdivisions)]
    /\ UNCHANGED <<gridObject, gridDimensions, gridSubdivisions, noise_seed,
                   softSelect, scene, rocks, groups, shadingNodes>>

\* one pass of the loop: the centre is the first or the last vertex of the
\* section, the curve the first of the palette
SectionsIter ==
    /\ pc = "soft_random"
    /\ frame.v < frame.vertices_to_edit
    /\ LET c == CurrentSection(frame)
           n == Sq(gridSubdivisions + 1)
       IN  \E vertex \in {SectionFirst(c, frame.section_size),
                          SectionLast(c, frame.section_size, n)},
              u \in RandUnit :
              /\ softSelect' = [sse |-> TRUE, ssd |-> frame.ssd, ssc |-> curves[1]]
              /\ frame' = SoftRandomPass(frame, vertex, u * frame.height_limit)
    /\ call' = [call EXCEPT !.displacements = @ + 1]
    /\ UNCHANGED <<gridObject, gridDimensions, gridSubdivisions, noise_seed,
                   scene, rocks, groups, shadingNodes, pc, ops>>

SectionsFinish ==
    /\ pc = "soft_random"
    /\ frame.v = frame.vertices_to_edit
    /\ softSelect' = [softSelect EXCEPT !.sse = FALSE]
    /\ pc' = "idle"
    /\ frame' = NoFrame
    /\ call' = [call EXCEPT !.result = "None"]
    /\ UNCHANGED <<gridObject, gridDimensions, gridSubdivisions, noise_seed,
                   scene, rocks, groups, shadingNodes, ops>>

NextSections ==
    \/ SectionsStart
    \/ SectionsIter
    \/ SectionsFinish

SpecSections == InitSections /\ [][NextSections]_vars

\* the noise functions on their own: the point (nx/den, ny/den), the seed
\* and the grid dimension are drawn, then one function is applied
NoiseCoords == 0..MaxCoord

NoiseDens == 1..MaxDen

InitNoise ==
    /\ gridObject = NoObject
    /\ gridDimensions \in Dims
    /\ gridSubdivisions = InitSubdivisions
    /\ noise_seed \in Seeds
    /\ softSelect = [sse |-> FALSE, ssd |-> 5000, ssc |-> "0,1,2,1,0,2"]
    /\ scene = [n \in {} |-> 0]
    /\ rocks = <<>>
    /\ groups = {}
    /\ shadingNodes = [blinn |-> 0, switch |-> 0, color |-> 0]
    /\ pc = "idle"
    /\ frame \in [nx : NoiseCoords, ny : NoiseCoords, den : NoiseDens, value : {0},
                  octaves : {0}]
    /\ call = NoCall
    /\ ops = 0

\* noise_from_coordinates at the cell corner of the point
CallNoiseFromCoordinates ==
    /\ pc = "idle"
    /\ pc' = "noise_from_coordinates"
    /\ frame' = [frame EXCEPT !.value =
                    noise_from_coordinates(ModfInt(frame.nx, frame.den),
                                           ModfInt(frame.ny, frame.den), noise_seed)]
    /\ UNCHANGED <<gridObject, gridDimensions, gridSubdivisions, noise_seed, softSelect,
                   scene, rocks, groups, shadingNodes, call, ops>>

\* smooth_noise at the point
CallSmoothNoise ==
    /\ pc = "idle"
    /\ pc' = "smooth_noise"
    /\ frame' = [frame EXCEPT !.value =
                    smooth_noise(frame.nx, frame.ny, frame.den, noise_seed)]
    /\ UNCHANGED <<gridObject, gridDimensions, gridSubdivisions, noise_seed, softSelect,
                   scene, rocks, groups, shadingNodes, call, ops>>

\* the body of value_noise's loops for lattice point (nx, ny) of a grid with
\* den subdivisions: value * height_limit
CallNoiseDisplacement ==
    /\ pc = "idle"
    /\ frame.nx <= frame.den /\ frame.ny <= frame.den
    /\ pc' = "value_noise"
    /\ frame' = [frame EXCEPT !.octaves =
                    OctaveValue(frame.nx, frame.ny, frame.den, noise_seed),
                              !.value =
                    NoiseDisplacement(frame.nx, frame.ny, frame.den,
                                      gridDimensions, noise_seed)]
    /\ UNCHANGED <<gridObject, gridDimensions, gridSubdivisions, noise_seed, softSelect,
                   scene, rocks, groups, shadingNodes, call, ops>>

NextNoise ==
    \/ CallNoiseFromCoordinates
    \/ CallSmoothNoise
    \/ CallNoiseDisplacement

SpecNoise == InitNoise /\ [][NextNoise]_vars

\* ---------------------------------------------------------------- claims
DeformOps == {"soft_random", "value_noise"}

\* the rocks created so far by the current create_rocks call
Batch == (call.first + 1)..Len(rocks)

\* lattice coordinates of the vertex stored at 1-based position k
LatticeX(k, s) == (k - 1) \div (s + 1)

LatticeY(k, s) == (k - 1) % (s + 1)

\* the displacement Method B computes for the vertex at position k
VertexNoise(k, seed) ==
    NoiseDisplacement(LatticeX(k, gridSubdivisions), LatticeY(k, gridSubdivisions),
                      gridSubdivisions, gridDimensions, seed)

\* C1 (as stated): after value_noise every vertex height equals
\* fractalNoise(vertex, seed) * heightLimit, whatever the heights were before.
C1_MethodBAbsolute ==
    (call.op = "value_noise" /\ call.valid) =>
        \A k \in DOMAIN scene[gridObject].verts :
            scene[gridObject].verts[k].h = VertexNoise(k, noise_seed)

\* C1 (amended): value_noise is relative: it adds
\* fractalNoise(vertex, seed) * heightLimit to the height each vertex had.
C1_MethodBRelative ==
    [][(call'.op = "value_noise" /\ call'.valid) =>
          \A k \in DOMAIN scene[gridObject].verts :
              scene'[gridObject].verts[k].h =
                  scene[gridObject].verts[k].h + VertexNoise(k, noise_seed')]_vars

\* Method B has run on a grid that was already deformed, with a displacement
\* that is not zero
C1_Witness ==
    /\ call.op = "value_noise" /\ call.valid /\ ~call.priorFlat
    /\ \E k \in DOMAIN scene[gridObject].verts : VertexNoise(k, noise_seed) # 0

\* C2: with no valid terrain a deformation request changes nothing: no
\* vertex, not noise_seed, not the soft selection, not the grid attributes.
C2_NoTerrainNoMutation ==
    [][(call'.op \in DeformOps /\ ~call'.valid) =>
          UNCHANGED <<scene, noise_seed, softSelect, gridObject, gridDimensions,
                      gridSubdivisions, rocks, groups, shadingNodes>>]_vars

\* Method B was asked for after the terrain had been deleted in the host
C2_Witness ==
    /\ call.op = "value_noise" /\ ~call.valid
    /\ gridObject # NoObject /\ gridObject \notin DOMAIN scene

\* C3 (as stated): with no valid terrain the caller of a deformation gets a
\* NoTerrainError.
C3_NoTerrainErrorSurfaced ==
    (call.op \in DeformOps /\ ~call.valid) => call.result = "NoTerrainError"

\* C3 (amended): a finished deformation call hands back None whether or not
\* the terrain check passed; a failed check is logged and nothing else.
C3_NoTerrainReturnsNone ==
    (call.op \in DeformOps /\ pc = "idle") =>
        /\ call.result = "None"
        /\ call.logged <=> ~call.valid

\* Method A was asked for with no terrain ever created
C3_Witness ==
    /\ call.op = "soft_random" /\ ~call.valid /\ call.logged
    /\ gridObject = NoObject

\* C4: create_rocks with rocks_amount < 1 is rejected with an
\* InvalidParameterError and leaves generator and scene unchanged.
C4_DegenerateRejected ==
    [][(call'.op = "create_rocks" /\ call'.amount < 1) =>
          /\ call'.result = "InvalidParameterError"
          /\ UNCHANGED <<scene, noise_seed, softSelect, gridObject, gridDimensions,
                         gridSubdivisions, rocks, groups, shadingNodes>>]_vars

\* C5 (as stated): after create_terrain the scene holds exactly one grid of
\* that name, the one the grid attributes describe.
C5_OneGridPerName ==
    call.op = "create_terrain" =>
        /\ Cardinality({n \in DOMAIN scene : n[1] = TerrainName}) = 1
        /\ scene[gridObject].dim = gridDimensions
        /\ scene[gridObject].sub = gridSubdivisions

\* C5 (amended): create_terrain adds one new flat grid and keeps every
\* earlier grid as it was; the grid attributes describe the new grid.
C5_CreateAddsGrid ==
    [][call'.op = "create_terrain" =>
          /\ gridObject' \notin DOMAIN scene
          /\ DOMAIN scene' = (DOMAIN scene) \cup {gridObject'}
          /\ \A n \in DOMAIN scene : scene'[n] = scene[n]
          /\ scene'[gridObject'].dim = gridDimensions'
          /\ scene'[gridObject'].sub = gridSubdivisions'
          /\ Len(scene'[gridObject'].verts) = Sq(gridSubdivisions' + 1)
          /\ IsFlat(scene'[gridObject'])]_vars

\* a terrain was created while an earlier one of the same name was there
C5_Witness ==
    /\ call.op = "create_terrain"
    /\ Cardinality({n \in DOMAIN scene : n[1] = TerrainName}) >= 2

\* C6: a finished batch of N rocks made with no terrain has created exactly
\* N rocks, none projected, all at height 0, all under the one group.
C6_NoTerrainScatter ==
    (call.op = "create_rocks" /\ call.result = "None" /\ ~call.valid) =>
        /\ Len(rocks) = call.first + call.amount
        /\ call.amount >= 1 => RocksGroup(RocksName) \in groups
        /\ \A k \in Batch :
              /\ ~rocks[k].projected
              /\ rocks[k].y = 0
              /\ rocks[k].parent = RocksGroup(RocksName)

\* a batch of MaxRocks rocks has finished with no terrain present
C6_Witness ==
    /\ call.op = "create_rocks" /\ call.result = "None" /\ ~call.valid
    /\ call.amount = MaxRocks /\ Len(rocks) >= MaxRocks

\* C7: in a batch no rock attempts projection after an attempt has failed
\* (so at most one attempt fails), and the first rock of a batch always
\* attempts it.
C7_DowngradeWithinBatch ==
    call.op = "create_rocks" =>
        /\ \A i, j \in Batch :
              (i < j /\ rocks[i].attempted /\ ~rocks[i].projected) => ~rocks[j].attempted
        /\ Cardinality({i \in Batch : rocks[i].attempted /\ ~rocks[i].projected}) <= 1
        /\ Batch # {} => rocks[call.first + 1].attempted

\* a second batch whose first rock failed to project and whose second rock
\* did not try, after an earlier batch that had failed too
C7_Witness ==
    /\ call.op = "create_rocks" /\ call.first >= 1
    /\ \E k \in 1..call.first : rocks[k].attempted /\ ~rocks[k].projected
    /\ Len(rocks) >= call.first + 2
    /\ rocks[call.first + 1].attempted /\ ~rocks[call.first + 1].projected
    /\ ~rocks[call.first + 2].attempted

\* C8: every rock of a batch is sampled inside the terrain's extent,
\* -dimension/2 <= x, z <= dimension/2 (positions are in half units).
C8_RockInsideTerrain ==
    call.op = "create_rocks" =>
        \A k \in Batch :
            /\ -gridDimensions <= rocks[k].x2 /\ rocks[k].x2 <= gridDimensions
            /\ -gridDimensions <= rocks[k].z2 /\ rocks[k].z2 <= gridDimensions

\* C9: a deformation keeps every grid, its vertex count (s+1)^2 and the X
\* and Z of every vertex; only heights change.
C9_DeformOnlyHeights ==
    [][(call'.op \in DeformOps /\ call'.valid) =>
          \A n \in DOMAIN scene :
              /\ n \in DOMAIN scene'
              /\ Len(scene'[n].verts) = Sq(scene[n].sub + 1)
              /\ \A k \in DOMAIN scene[n].verts :
                    /\ scene'[n].verts[k].px = scene[n].verts[k].px
                    /\ scene'[n].verts[k].pz = scene[n].verts[k].pz]_vars

\* Method A has finished on a grid that was already deformed and has left
\* heights that are not zero
C9_Witness ==
    /\ call.op = "soft_random" /\ call.valid /\ call.result = "None" /\ ~call.priorFlat
    /\ ~IsFlat(scene[gridObject])

\* C10: the flat indexes of one Method B run are a bijection onto
\* 0..(s+1)^2-1: every vertex is moved exactly once, none is out of range.
C10_IndexBijection ==
    (call.op = "value_noise" /\ call.valid) =>
        LET n == Sq(gridSubdivisions + 1)
        IN  /\ n = Len(scene[gridObject].verts)
            /\ Len(call.moved) = n
            /\ \A k \in DOMAIN call.moved : call.moved[k] \in 0..(n - 1)
            /\ \A i \in 0..(n - 1) :
                  Cardinality({k \in DOMAIN call.moved : call.moved[k] = i}) = 1

\* Method B has run over a whole grid
C10_Witness ==
    /\ call.op = "value_noise" /\ call.valid
    /\ Len(call.moved) >= 4

\* C11: in Method A every raw draw lies in [-heightLimit, heightLimit] with
\* heightLimit = 7.5*(dimension/100)/2, and the delta applied to the centre
\* vertex has absolute value in [heightLimit, 2*heightLimit]: never zero,
\* never strictly inside (-heightLimit, heightLimit).
C11_PushedDeltas ==
    [][(pc = "soft_random" /\ frame'.v = frame.v + 1) =>
          LET heightLimit == (75000 * gridDimensions) \div 200
              before == scene[gridObject].verts[frame'.vertex].h
              after == scene'[gridObject].verts[frame'.vertex].h
          IN  /\ heightLimit > 0
              /\ -heightLimit <= frame'.raw_y /\ frame'.raw_y <= heightLimit
              /\ heightLimit <= Abs(frame'.random_y)
              /\ Abs(frame'.random_y) <= 2 * heightLimit
              /\ after - before = frame'.random_y]_vars

\* a pass of Method A drew the lowest value and applied twice that, after a
\* pass that drew zero and applied +heightLimit to another vertex
C11_Witness ==
    /\ pc = "soft_random" /\ frame.v >= 2
    /\ frame.raw_y = -frame.height_limit
    /\ frame.random_y = -2 * frame.height_limit
    /\ \E k \in DOMAIN scene[gridObject].verts :
          k # frame.vertex /\ scene[gridObject].verts[k].h = frame.height_limit

\* C12 (as stated): Method A cuts the vertices into exactly
\* min(8, vertexBudget) contiguous chunks of size ceil(total/sectionCount),
\* the last one possibly shorter, for every subdivisions value of the slider.
C12_CeilPartition ==
    pc = "soft_random" =>
        LET total == Sq(gridSubdivisions + 1)
            sectionCount == IF frame.vertices_to_edit >= 8 THEN 8
                            ELSE frame.vertices_to_edit
            size == (total + sectionCount - 1) \div sectionCount
        IN  /\ frame.sections = sectionCount
            /\ frame.section_size = size
            /\ \A c \in 1..frame.sections :
                  /\ SectionFirst(c, frame.section_size) = (c - 1) * size + 1
                  /\ c < frame.sections =>
                        SectionLast(c, frame.section_size, total) = c * size
                  /\ c = frame.sections =>
                        SectionLast(c, frame.section_size, total) = total

\* C13: modify_terrain on an existing terrain gives what one deformation of
\* a fresh flat grid with the stored name, dimension and subdivisions gives:
\* nothing of the earlier heights survives, the other grids are untouched,
\* and gridObject, gridDimensions and gridSubdivisions keep their values.
C13_ModifyStartsFlat ==
    [][(call'.op = "modify_terrain" /\ call'.valid) =>
          LET fresh == polyPlane(gridDimensions, gridSubdivisions)
          IN  /\ UNCHANGED <<gridObject, gridDimensions, gridSubdivisions>>
              /\ DOMAIN scene' = DOMAIN scene
              /\ \A n \in DOMAIN scene : n # gridObject => scene'[n] = scene[n]
              /\ (pc = "idle" /\ call'.method = 0) =>
                    scene'[gridObject] = fresh /\ pc' = "soft_random" /\ frame'.v = 0
              /\ (pc = "soft_random" /\ frame.v = 0 /\ frame'.v = 1) =>
                    scene'[gridObject] =
                        MoveVertex(fresh, frame'.vertex, <<0, frame'.random_y, 0>>,
                                   TRUE, softSelect')
              /\ (pc = "idle" /\ call'.method = 1) =>
                    \A k \in DOMAIN fresh.verts :
                        /\ scene'[gridObject].verts[k].h = VertexNoise(k, noise_seed')
                        /\ scene'[gridObject].verts[k].px = fresh.verts[k].px
                        /\ scene'[gridObject].verts[k].pz = fresh.verts[k].pz]_vars

\* modify_terrain with Method B has run on a grid that an earlier
\* modify_terrain had left deformed
C13_Witness ==
    /\ call.op = "modify_terrain" /\ call.valid /\ call.method = 1
    /\ ~call.priorFlat
    /\ \E k \in DOMAIN scene[gridObject].verts : VertexNoise(k, noise_seed) # 0

\* the point of the noise call has whole coordinates
WholePoint == frame.nx % frame.den = 0 /\ frame.ny % frame.den = 0

\* C14: at whole non-negative coordinates smooth_noise equals
\* noise_from_coordinates (every weight is zero), for every seed; hence the
\* displacement Method B computes for vertex (0,0) is
\* noise_from_coordinates(0, 0, seed) * 7.5*(dimension/100)*3.0.
C14_WholePointNoise ==
    /\ (pc = "smooth_noise" /\ WholePoint) =>
          frame.value = noise_from_coordinates(frame.nx \div frame.den,
                                               frame.ny \div frame.den, noise_seed)
    /\ (pc = "value_noise" /\ frame.nx = 0 /\ frame.ny = 0) =>
          frame.value = (noise_from_coordinates(0, 0, noise_seed)
                           * ((75000 * gridDimensions * 3) \div 100)) \div FixScale

\* smooth_noise was applied at a whole point away from the origin where the
\* four corners of the cell have different noise values
C14_Witness ==
    /\ pc = "smooth_noise" /\ WholePoint /\ frame.nx > 0 /\ frame.ny > 0
    /\ frame.value # 0
    /\ frame.value # noise_from_coordinates(frame.nx \div frame.den + 1,
                                            frame.ny \div frame.den, noise_seed)
    /\ frame.value # noise_from_coordinates(frame.nx \div frame.den,
                                            frame.ny \div frame.den + 1, noise_seed)

\* C15 (as stated): noise_from_coordinates returns a value in [0, 1) for
\* x, y >= 0 and a seed in [0, 10000).
C15_NoiseInUnitRange ==
    pc = "noise_from_coordinates" => (0 <= frame.value /\ frame.value < FixScale)

\* the chunks the shuffled order can reach, as positions in vertex_sections
ShuffledSections == {frame.grid_indexes[a] + 1 : a \in DOMAIN frame.grid_indexes}

\* C16 (as stated): a successful Method A run makes exactly
\* floor(100*subdivisions/100) + 2 soft displacements and stops; pass v takes
\* its centre from chunk shuffled[v mod sectionCount], shuffled being one
\* permutation of 0..sectionCount-1, so each of those chunks gets
\* floor or ceil(vertexBudget/sectionCount) edits.
C16_BudgetExact ==
    LET vertexBudget == (100 * gridSubdivisions) \div 100 + 2
        sectionCount == IF vertexBudget >= 8 THEN 8 ELSE vertexBudget
    IN  /\ (call.op = "soft_random" /\ call.result = "None") =>
              call.displacements = vertexBudget
        /\ pc = "soft_random" =>
              /\ frame.v <= vertexBudget
              /\ Len(frame.grid_indexes) = sectionCount
              /\ ShuffledSections = 1..sectionCount
              /\ frame.v > 0 =>
                    frame.section = frame.grid_indexes[((frame.v - 1) % sectionCount) + 1] + 1
              /\ frame.v = frame.vertices_to_edit =>
                    \A c \in ShuffledSections :
                        \/ frame.section_edits[c] = vertexBudget \div sectionCount
                        \/ frame.section_edits[c] = (vertexBudget + sectionCount - 1) \div sectionCount

C18_SeedOnlyInMethodB ==
    [][/\ noise_seed' # noise_seed =>
             (pc = "idle" /\ call'.op = "value_noise" /\ call'.valid)
       /\ (call'.op \in DeformOps /\ ~call'.valid) => noise_seed' = noise_seed
       /\ (call'.op = "value_noise" /\ call'.valid) =>
             /\ 0 <= noise_seed' /\ noise_seed' < 10000
             /\ \A k \in DOMAIN scene[gridObject].verts :
                   LET s == gridSubdivisions
                       x == LatticeX(k, s)
                       y == LatticeY(k, s)
                       value == (8 * smooth_noise(4 * x, 4 * y, s, noise_seed')
                                 + 4 * smooth_noise(8 * x, 8 * y, s, noise_seed')
                                 + 2 * smooth_noise(16 * x, 16 * y, s, noise_seed')
                                 + smooth_noise(32 * x, 32 * y, s, noise_seed')) \div 15
                   IN  scene'[gridObject].verts[k].h - scene[gridObject].verts[k].h =
                           (value * NoiseHeightLimit(gridDimensions)) \div FixScale]_vars

\* Method B has drawn a new seed after a batch of rocks was scattered with
\* the initial seed still in place
C18_Witness ==
    /\ call.op = "value_noise" /\ call.valid
    /\ noise_seed # InitSeed
    /\ Len(rocks) >= 1
    /\ \E k \in DOMAIN scene[gridObject].verts : scene[gridObject].verts[k].h # 0

\* C19: over all batches made with one rocks_name the group
\* rocks_name + "_grp" is created at most once, by the grouping attempt
\* that finds it missing (the first rock ever), every rock of every batch
\* is parented under it, and a finished batch has made all its rocks.
C19_GroupCreatedOnce ==
    LET rocks_group == RocksGroup(RocksName)
        makers == {k \in DOMAIN rocks : rocks[k].madeGroup}
    IN  /\ groups \subseteq {rocks_group}
        /\ rocks = <<>> => groups = {}
        /\ rocks # <<>> => (groups = {rocks_group} /\ makers = {1})
        /\ \A k \in DOMAIN rocks : rocks[k].parent = rocks_group
        /\ (call.op = "create_rocks" /\ call.result = "None") =>
              Len(rocks) = call.first + call.amount

\* a later batch has added rocks to the group an earlier batch created
C19_Witness ==
    /\ call.op = "create_rocks" /\ call.result = "None"
    /\ call.first >= 1 /\ call.amount >= 1
    /\ rocks[1].madeGroup
    /\ ~rocks[Len(rocks)].madeGroup
    /\ rocks[Len(rocks)].parent = RocksGroup(RocksName)

\* C20: in deform_rock the falloff radius r has radius <= |r| <= 1.1*radius;
\* the base pole is flattened first under influence radius 3*|r|, then the
\* middle vertex is pushed by 0.8*radius and the top pole by 0.4*radius
\* under 1.5*|r|, the two pivots are moved with soft selection disabled,
\* and the sphere keeps its vertex count.
C20_DeformRockOrder ==
    (pc = "create_rocks" /\ frame.i > 0) =>
        LET r == Abs(frame.soft_select_radius)
            radius == frame.radius
            e == frame.edits
        IN  /\ 0 < radius /\ radius <= r /\ 10 * r <= 11 * radius
            /\ Len(e) = 5
            /\ e[1].cmd = "scale" /\ e[1].target = "vertices[-2]"
            /\ e[1].sse /\ e[1].ssd = 3 * r
            /\ e[2].cmd = "move" /\ e[2].target = "vertices[len(vertices)/2]"
            /\ e[2].amount = 80000 * radius
            /\ e[2].sse /\ 2 * e[2].ssd = 3 * r
            /\ e[3].cmd = "move" /\ e[3].target = "vertices[-1]"
            /\ e[3].amount = 40000 * radius
            /\ e[3].sse /\ 2 * e[3].ssd = 3 * r
            /\ e[4].target = "scalePivot" /\ ~e[4].sse
            /\ e[5].target = "rotatePivot" /\ ~e[5].sse
            /\ {e[1].vertex, e[2].vertex, e[3].vertex} = {380, 191, 381}
            /\ rocks[Len(rocks)].vertices = 382

\* a rock was deformed whose drawn radius was negative, at the far end of
\* the range
C20_Witness ==
    /\ pc = "create_rocks" /\ frame.i > 0
    /\ frame.soft_select_radius < 0
    /\ 10 * Abs(frame.soft_select_radius) = 11 * frame.radius
    /\ Len(frame.edits) = 5

\* the scales, moves and constraints the last pass of create_rocks made on
\* the whole rock, as a set of command names
WholeRockOps == {frame.rock_edits[k].cmd : k \in DOMAIN frame.rock_edits}

\* C21 (as stated): soft selection is disabled whenever Method B moves a
\* vertex and whenever create_rocks scales, positions or projects a rock,
\* and it is disabled when soft_random (past the terrain check),
\* value_noise, deform_rock and create_rocks return.
C21_DisabledOnEveryReturn ==
    /\ (call.op = "value_noise" /\ pc = "idle") => ~softSelect.sse
    /\ (call.op = "soft_random" /\ call.valid /\ pc = "idle") => ~softSelect.sse
    /\ (call.op = "create_rocks" /\ pc = "idle") => ~softSelect.sse
    /\ (pc = "create_rocks" /\ frame.i > 0) =>
          /\ ~frame.deform_rock_sse
          /\ \A k \in DOMAIN frame.rock_edits : ~frame.rock_edits[k].sse

\* C21 (amended): as stated, except that value_noise, like soft_random,
\* disables soft selection only past the terrain check: a deformation that
\* fails the check returns with the soft selection as it found it.
C21_DisabledPastCheck ==
    [][/\ (call'.op = "value_noise" /\ call'.valid) => ~softSelect'.sse
       /\ (pc = "soft_random" /\ pc' = "idle") => ~softSelect'.sse
       /\ (call'.op \in DeformOps /\ ~call'.valid) => softSelect' = softSelect
       /\ (pc = "idle" /\ call'.op = "create_rocks") => ~softSelect'.sse
       /\ (pc = "create_rocks" /\ pc' = "idle") => ~softSelect'.sse
       /\ (pc = "create_rocks" /\ frame'.i = frame.i + 1) =>
             /\ ~frame'.deform_rock_sse
             /\ ~softSelect'.sse
             /\ {"scale", "move"} \subseteq
                   {frame'.rock_edits[k].cmd : k \in DOMAIN frame'.rock_edits}
             /\ rocks'[Len(rocks')].projected =>
                   "geometryConstraint" \in
                       {frame'.rock_edits[k].cmd : k \in DOMAIN frame'.rock_edits}
             /\ \A k \in DOMAIN frame'.rock_edits : ~frame'.rock_edits[k].sse]_vars

\* a rock has been scaled, positioned and projected onto a terrain that
\* Method A had deformed
C21_Witness ==
    /\ pc = "create_rocks" /\ frame.i > 0
    /\ rocks[Len(rocks)].projected
    /\ WholeRockOps = {"scale", "move", "geometryConstraint", "normalConstraint"}
    /\ gridObject \in DOMAIN scene /\ scene[gridObject].softEdge
    /\ ~IsFlat(scene[gridObject])

\* C22 (as stated): in Method A, for every subdivisions value of the slider
\* the chunk size is at least 1 and every vertex, the last ones in scan
\* order included, lies in a chunk that some pass can select.
C22_EveryVertexSelectable ==
    pc = "soft_random" =>
        LET total == Sq(gridSubdivisions + 1)
        IN  /\ frame.section_size >= 1
            /\ \A c \in 1..frame.sections : c \in ShuffledSections
            /\ \E c \in ShuffledSections :
                  /\ SectionFirst(c, frame.section_size) <= total
                  /\ total <= SectionLast(c, frame.section_size, total)

\* the noise_from_coordinates samples smooth_noise reads at (nx/den, ny/den)
CornerSamples(nx, ny, den, seed) ==
    {noise_from_coordinates(nx \div den + i, ny \div den + j, seed) : i, j \in {0, 1}}

\* the samples the four octaves of lattice point (x, y) read
OctaveSamples(x, y, s, seed) ==
    UNION {CornerSamples(f * x, f * y, s, seed) : f \in {4, 8, 16, 32}}

SetMin(S) == CHOOSE m \in S : \A n \in S : m <= n

SetMax(S) == CHOOSE m \in S : \A n \in S : n <= m

\* C23: the smooth-step weights lie in [0, 1], so smooth_noise stays within
\* the range of its four corner samples; the octave sum divided by 1.875
\* stays within the range of the samples the octaves read, hence strictly
\* inside (-1, 1), and the displacement d = value * heightLimit has
\* |d| < heightLimit = 7.5*(dimension/100)*3.0.
C23_NoiseWithinSamples ==
    /\ pc = "smooth_noise" =>
          LET samples == CornerSamples(frame.nx, frame.ny, frame.den, noise_seed)
          IN  /\ 0 <= SmoothStep(frame.nx % frame.den, frame.den)
              /\ SmoothStep(frame.nx % frame.den, frame.den) <= FixScale
              /\ 0 <= SmoothStep(frame.ny % frame.den, frame.den)
              /\ SmoothStep(frame.ny % frame.den, frame.den) <= FixScale
              /\ SetMin(samples) <= frame.value
              /\ frame.value <= SetMax(samples)
    /\ pc = "value_noise" =>
          LET samples == OctaveSamples(frame.nx, frame.ny, frame.den, noise_seed)
              heightLimit == (75000 * gridDimensions * 3) \div 100
          IN  /\ SetMin(samples) <= frame.octaves
              /\ frame.octaves <= SetMax(samples)
              /\ Abs(frame.octaves) < FixScale
              /\ Abs(frame.octaves * heightLimit) < heightLimit * FixScale
              /\ frame.value = (frame.octaves * heightLimit) \div FixScale

\* a displacement was computed for a lattice point whose first octave falls
\* between lattice corners, with a negative sample among those read and a
\* value strictly between the lowest and the highest sample
C23_Witness ==
    /\ pc = "value_noise"
    /\ (4 * frame.nx) % frame.den # 0 /\ (4 * frame.ny) % frame.den # 0
    /\ LET samples == OctaveSamples(frame.nx, frame.ny, frame.den, noise_seed)
       IN  /\ SetMin(samples) < 0
           /\ SetMin(samples) < frame.octaves
           /\ frame.octaves < SetMax(samples)
    /\ frame.value # 0

====
